---- MODULE Spec2Model ----
(***************************************************************************)
(* The realtime playground server of KeepMemories (src/server.js, the      *)
(* Socket.IO section): the connection map, the private-room map, the       *)
(* pending-invite map, the live sockets with their room channels, and one  *)
(* action per event handler.  Every handler runs to completion (Node's     *)
(* single-threaded event loop), so an action is a whole handler.  Two      *)
(* further runs add the account-pairing REST endpoints of the same file    *)
(* and the invite card of the browser (src/public/playground.js).          *)
(***************************************************************************)
EXTENDS Integers, Sequences, FiniteSets, TLC

VARIABLES
    playgroundConnections, \* Map oderId -> playerData            (server.js:41)
    privateRooms,          \* Map roomId -> {members, messages, createdAt} (:44)
    pendingInvites,        \* Map `${fromId}_${toId}` -> invite     (server.js:47)
    sockets,               \* live sockets: socket.id -> closure + joined channels
    nextSocketId,          \* number of sockets accepted so far
    now,                   \* the value Date.now() returns
    emitted,               \* the events the running handler has emitted
    last,                  \* the event the running handler was called for
    crashed,               \* a handler threw: uncaught exception in the process
    events,                \* number of events handled so far
    users,                 \* db.users: userId -> account             (server.js:72)
    clients                \* the browser behind a socket: socket.id -> the
                           \* invite card of public/playground.js

vars == <<playgroundConnections, privateRooms, pendingInvites, sockets,
          nextSocketId, now, emitted, last, crashed, events, users, clients>>

(***************************************************************************)
(* Bounds of the model.                                                    *)
(***************************************************************************)
MaxEvents == 7       \* events the server handles in one run
MaxClock == 1        \* Date.now() ranges over 0..MaxClock
MaxMessages == 3     \* events of a run that starts with a room in place
MaxMeet == 4         \* events of a run that starts with three players
MaxInvites == 2      \* invites of a run with browsers

(***************************************************************************)
(* Program constants.                                                      *)
(***************************************************************************)
PROXIMITY_RADIUS == 100
MAX_MESSAGE_LENGTH == 200
MAX_ROOM_HISTORY == 100

\* Account ids (generateId: six characters of A-Z0-9, no underscore), listed in
\* the order Array.prototype.sort puts them.
PlayerOrder == <<"A", "B", "C">>
Players == {PlayerOrder[i] : i \in 1..Len(PlayerOrder)}
Ord(p) == CHOOSE i \in 1..Len(PlayerOrder) : PlayerOrder[i] = p
Username(p) == "user" \o p

\* JavaScript values that are not player ids, room ids or numbers.
undefined == "undefined"
null == <<>>

\* A coordinate is <<n>> for the number n, and <<>> for a value arithmetic
\* turns into NaN (a field the client left out).
Num(n) == <<n>>
NaN == <<>>
IsNum(c) == Len(c) = 1

\* The AVATAR_COLORS the model draws from.
Colors == {"#00ff88"}

\* Spawn points are in [500,2500) x [500,1500); moves carry whatever the client
\* sends.
\* (560,580) is at distance 100 of (500,500); (580,580) is farther, and at
\* distance 20 of (560,580).
SpawnPoints == {<<Num(500), Num(500)>>}
MovePoints == {<<Num(560), Num(580)>>, <<Num(580), Num(580)>>, <<NaN, Num(500)>>}

\* The payload of an event is <<data>>, and <<>> when the client sent none.
\* A move carries x, y, direction and isMoving; a field the client left out is
\* undefined, and the booleans are written "true" and "false".
MoveData(pt, direction, isMoving) ==
    <<[x |-> pt[1], y |-> pt[2], direction |-> direction, isMoving |-> isMoving]>>

\* value || fallback
OrElse(value, fallback) ==
    IF value \in {undefined, "false", ""} THEN fallback ELSE value

(***************************************************************************)
(* Maps.                                                                   *)
(***************************************************************************)
Has(m, k) == k \in DOMAIN m
MapSetIfAbsent(m, k, v) ==
    [j \in DOMAIN m \cup {k} |-> IF j \in DOMAIN m THEN m[j] ELSE v]

MapSet(m, k, v) == [j \in DOMAIN m \cup {k} |-> IF j = k THEN v ELSE m[j]]
MapKeep(m, k) == m

MapDelete(m, k) == [j \in DOMAIN m \ {k} |-> m[j]]
EmptyMap == [j \in {} |-> null]

(***************************************************************************)
(* Text.  A string is a sequence of characters.                            *)
(***************************************************************************)
IsSpace(ch) == ch = " "

\* String.prototype.trim takes the blanks off the two ends.
Untrimmed(str) == str

TrimStart(str) ==
    LET n == CHOOSE k \in 0..Len(str) :
                 /\ \A i \in 1..k : IsSpace(str[i])
                 /\ k < Len(str) => ~IsSpace(str[k + 1])
    IN  SubSeq(str, n + 1, Len(str))

TrimEnd(str) ==
    LET n == CHOOSE k \in 0..Len(str) :
                 /\ \A i \in 1..k : IsSpace(str[Len(str) + 1 - i])
                 /\ k < Len(str) => ~IsSpace(str[Len(str) - k])
    IN  SubSeq(str, 1, Len(str) - n)

trim(str) == TrimEnd(TrimStart(str))

substring(str, from, to) ==
    SubSeq(str, from + 1, IF to < Len(str) THEN to ELSE Len(str))

\* message.trim().substring(0, 200)
TrimOnly(message) == trim(message)

Sanitize(message) == substring(trim(message), 0, MAX_MESSAGE_LENGTH)

\* The text of n characters ch.
Repeat(ch, n) == SubSeq([i \in 1..n |-> ch], 1, n)

\* The message texts clients send: empty, blank, padded.
Hi == <<" ", "h", "i", " ">>
Texts == { <<>>, <<" ">>, Hi }

\* ... and texts longer than the cut: 201 characters, 201 characters after a
\* blank, 199 characters between blanks (202 in all), and 201 blanks.
LongTexts ==
    { Repeat("x", MAX_MESSAGE_LENGTH + 1),
      <<" ">> \o Repeat("y", MAX_MESSAGE_LENGTH + 1),
      <<" ">> \o Repeat("z", MAX_MESSAGE_LENGTH - 1) \o <<" ", " ">>,
      Repeat(" ", MAX_MESSAGE_LENGTH + 1) }

(***************************************************************************)
(* Helpers of the playground section.                                      *)
(***************************************************************************)
\* What getAllPlayersData pushes for every entry of the connection map.
getAllPlayersData(conns) ==
    { [oderId |-> conns[k].oderId, username |-> Username(conns[k].oderId),
       color |-> OrElse(conns[k].color, "#00ff88"),
       x |-> conns[k].x, y |-> conns[k].y,
       direction |-> OrElse(conns[k].direction, "down"),
       isMoving |-> "false"] : k \in DOMAIN conns }

\* Math.sqrt(dx * dx + dy * dy).  The root of n is carried as <<n>>, so that
\* comparisons with it are exact; NaN when a coordinate is not a number.
getDistance(player1, player2) ==
    IF IsNum(player1.x) /\ IsNum(player2.x) /\ IsNum(player1.y) /\ IsNum(player2.y)
    THEN LET dx == player1.x[1] - player2.x[1]
             dy == player1.y[1] - player2.y[1]
         IN  Num(dx * dx + dy * dy)
    ELSE NaN

\* distance > r and distance <= r on a carried root; both are false of NaN.
RootGT(distance, r) == IsNum(distance) /\ distance[1] > r * r
RootLE(distance, r) == IsNum(distance) /\ distance[1] <= r * r

\* Math.round of a carried root: the r with r - 1/2 <= sqrt(n) < r + 1/2.
RootRound(distance) ==
    IF IsNum(distance)
    THEN Num(CHOOSE r \in 0..(distance[1] + 1) :
               /\ (r = 0 \/ (2 * r - 1) * (2 * r - 1) <= 4 * distance[1])
               /\ 4 * distance[1] < (2 * r + 1) * (2 * r + 1))
    ELSE NaN

\* distance <= PROXIMITY_RADIUS, the test of getNearbyPlayers.
WithinRadiusExclusive(distance) ==
    IsNum(distance) /\ distance[1] < PROXIMITY_RADIUS * PROXIMITY_RADIUS

WithinRadius(distance) == RootLE(distance, PROXIMITY_RADIUS)

\* distance > PROXIMITY_RADIUS, the test of the chatInvite handler.
TooFar(distance) == RootGT(distance, PROXIMITY_RADIUS)

getNearbyNobody(conns, oderId) == {}

getNearbyPlayers(conns, oderId) ==
    IF ~Has(conns, oderId) THEN {}
    ELSE { [oderId |-> conns[otherId].oderId,
            username |-> Username(conns[otherId].oderId),
            distance |-> RootRound(getDistance(conns[oderId], conns[otherId]))] :
           otherId \in { o \in DOMAIN conns :
                           /\ o # oderId
                           /\ WithinRadius(getDistance(conns[oderId], conns[o])) } }

\* `${fromId}_${toId}`, the key of an invite.  An account id has no underscore,
\* so the key is the pair.
InviteKeyOfInviter(fromId, toId) == <<fromId, fromId>>

InviteKey(fromId, toId) == <<fromId, toId>>

\* `private_${sorted[0]}_${sorted[1]}_${Date.now()}`
generateRoomIdFromTime(oderId1, oderId2, time) == <<"", "", time>>

generateRoomId(oderId1, oderId2, time) ==
    IF Ord(oderId1) <= Ord(oderId2)
    THEN <<oderId1, oderId2, time>>
    ELSE <<oderId2, oderId1, time>>

includes(members, id) == \E i \in 1..Len(members) : members[i] = id

\* room.members.includes(oderId), the test of the privateMessage handler.
IsMemberAlways(room, oderId) == TRUE

IsMember(room, oderId) == includes(room.members, oderId)

\* The rooms findExistingRoom can return; it returns one of them, or null.
RoomsBetween(rooms, oderId1, oderId2) ==
    { roomId \in DOMAIN rooms :
        includes(rooms[roomId].members, oderId1)
        /\ includes(rooms[roomId].members, oderId2) }

findExistingRoom(rooms, oderId1, oderId2) ==
    IF RoomsBetween(rooms, oderId1, oderId2) = {} THEN null
    ELSE CHOOSE roomId \in RoomsBetween(rooms, oderId1, oderId2) : TRUE

\* room.members.find(id => id !== oderId), undefined when there is none.
OtherMember(members, oderId) ==
    IF \E i \in 1..Len(members) : members[i] # oderId
    THEN members[CHOOSE i \in 1..Len(members) :
                    /\ members[i] # oderId
                    /\ \A j \in 1..(i - 1) : members[j] = oderId]
    ELSE undefined

(***************************************************************************)
(* Emission.  An event is delivered to one socket.                         *)
(***************************************************************************)
Event(to, ev, data) == [to |-> to, ev |-> ev, data |-> data]

\* socket.emit(ev, data)
EmitSelf(s, ev, data) == {Event(s, ev, data)}

\* io.to(socketId).emit(ev, data): the socket of that id, when it is live.
EmitToNobody(socks, socketId, ev, data) == {}

EmitTo(socks, socketId, ev, data) ==
    IF Has(socks, socketId) THEN {Event(socketId, ev, data)} ELSE {}

\* socket.to('playground:global').emit(ev, data): every live socket but s.
EmitGlobalAll(socks, s, ev, data) ==
    {Event(t, ev, data) : t \in DOMAIN socks \cup {s}}

EmitGlobalExcept(socks, s, ev, data) ==
    {Event(t, ev, data) : t \in DOMAIN socks \ {s}}

\* io.to(roomId).emit(ev, data): every live socket joined to the channel.
EmitRoom(socks, roomId, ev, data) ==
    {Event(t, ev, data) : t \in {u \in DOMAIN socks : roomId \in socks[u].rooms}}

\* socket.join(roomId) / socket.leave(roomId) on the socket of that id, if live.
JoinNothing(socks, socketId, roomId) == socks

Join(socks, socketId, roomId) ==
    IF Has(socks, socketId)
    THEN [socks EXCEPT ![socketId].rooms = @ \cup {roomId}]
    ELSE socks

Leave(socks, socketId, roomId) ==
    IF Has(socks, socketId)
    THEN [socks EXCEPT ![socketId].rooms = @ \ {roomId}]
    ELSE socks

\* No handler is running: the event loop waits for the next event.
Idle == [op |-> "idle"]

\* A field of an account is <<v>> for the value v, and null when it holds none.
Some(v) == <<v>>

\* db.users once the players have registered: each in its own space, without
\* a partner and without an invitation letter.
Registered ==
    [userId \in Players |->
        [spaceId |-> "SPACE_" \o userId, partnerId |-> null, pendingInvite |-> null]]

\* A step of the playground server: it writes no account, and the browsers
\* are not part of the run.
ServerStep == UNCHANGED <<users, clients>>

(***************************************************************************)
(* State after construction.                                               *)
(***************************************************************************)
Init ==
    /\ playgroundConnections = EmptyMap
    /\ privateRooms = EmptyMap
    /\ pendingInvites = EmptyMap
    /\ sockets = EmptyMap
    /\ nextSocketId = 0
    /\ now = 0
    /\ emitted = {}
    /\ last = Idle
    /\ crashed = FALSE
    /\ events = 0
    /\ users = Registered
    /\ clients = EmptyMap

\* The event loop is between two handlers and takes one more event.
Ready == ~crashed /\ last = Idle /\ events < MaxEvents

\* A handler threw: nothing catches it, the process ends.
Throw(op, s, data) ==
    /\ crashed' = TRUE
    /\ events' = events + 1
    /\ emitted' = {}
    /\ last' = [op |-> op, socket |-> s, data |-> data]

Done(op, s, data, evs) ==
    /\ crashed' = FALSE
    /\ events' = events + 1
    /\ emitted' = evs
    /\ last' = [op |-> op, socket |-> s, data |-> data]

\* io.on('connection') for a token whose user has a profile.  The handlers treat
\* every player alike (ids are compared for equality, and sorted only to build
\* the room id), so the k-th socket is taken to belong to one of the first k
\* players.
Connection(oderId, spawn, color) ==
    /\ Ready
    /\ Ord(oderId) <= nextSocketId + 1
    /\ LET s == nextSocketId + 1
           playerData == [socketId |-> s, oderId |-> oderId, color |-> color,
                          x |-> spawn[1], y |-> spawn[2],
                          direction |-> "down", isMoving |-> "false",
                          currentRoom |-> null]
           conns == MapSet(playgroundConnections, oderId, playerData)
       IN  /\ playgroundConnections' = conns
           /\ sockets' = MapSet(sockets, s,
                                [oderId |-> oderId, color |-> color, rooms |-> {}])
           /\ nextSocketId' = s
           /\ Done("connection", s, [oderId |-> oderId],
                   EmitSelf(s, "playground:init",
                            [oderId |-> oderId, players |-> getAllPlayersData(conns)])
                   \cup EmitGlobalExcept(sockets, s, "playground:playerJoined",
                                         [player |-> playerData]))
    /\ UNCHANGED <<privateRooms, pendingInvites, now>>

\* socket.on('playground:move'); destructuring a payload that is not there
\* throws.
Move(s, payload) ==
    /\ Ready
    /\ Has(sockets, s)
    /\ IF payload = <<>>
       THEN /\ Throw("playground:move", s, null)
            /\ UNCHANGED playgroundConnections
       ELSE LET oderId == sockets[s].oderId
                data == payload[1]
                conns == IF Has(playgroundConnections, oderId)
                         THEN [playgroundConnections EXCEPT
                                  ![oderId].x = data.x,
                                  ![oderId].y = data.y,
                                  ![oderId].direction = OrElse(data.direction, @),
                                  ![oderId].isMoving = OrElse(data.isMoving, "false")]
                         ELSE playgroundConnections
            IN  /\ playgroundConnections' = conns
                /\ Done("playground:move", s, data,
                        EmitGlobalExcept(sockets, s, "playground:playerMoved",
                                         [oderId |-> oderId, x |-> data.x,
                                          y |-> data.y,
                                          direction |-> data.direction,
                                          isMoving |-> data.isMoving])
                        \cup EmitSelf(s, "playground:nearbyPlayers",
                                      [nearby |-> getNearbyPlayers(conns, oderId)]))
    /\ UNCHANGED <<privateRooms, pendingInvites, sockets, nextSocketId, now>>

ErrorToAll(s, message) ==
    {Event(t, "playground:error", [message |-> message]) : t \in DOMAIN sockets}

Error(s, message) == EmitSelf(s, "playground:error", [message |-> message])

\* A room id the room map does not hold (any string a client makes up).
StaleRoomId == <<PlayerOrder[1], PlayerOrder[2], -1>>

\* socket.on('playground:chatInvite'); targetId is undefined when left out.
ChatInvite(s, targetId) ==
    /\ Ready
    /\ Has(sockets, s)
    /\ LET oderId == sockets[s].oderId
           data == [targetId |-> targetId]
           op == "playground:chatInvite"
       IN  IF targetId = undefined
           THEN /\ Done(op, s, data, {})
                /\ UNCHANGED pendingInvites
           ELSE IF ~Has(playgroundConnections, targetId)
           THEN /\ Done(op, s, data, Error(s, "Player not found"))
                /\ UNCHANGED pendingInvites
           ELSE IF ~Has(playgroundConnections, oderId)
           THEN \* myConnection is undefined: getDistance reads player1.x
                /\ Throw(op, s, data)
                /\ UNCHANGED pendingInvites
           ELSE IF TooFar(getDistance(playgroundConnections[oderId],
                                      playgroundConnections[targetId]))
           THEN /\ Done(op, s, data, Error(s, "Player is too far away to chat"))
                /\ UNCHANGED pendingInvites
           ELSE IF findExistingRoom(privateRooms, oderId, targetId) # null
           THEN /\ Done(op, s, data, Error(s, "Already chatting with this player"))
                /\ UNCHANGED pendingInvites
           ELSE /\ pendingInvites' =
                       MapSet(pendingInvites, InviteKey(oderId, targetId),
                              [fromId |-> oderId, toId |-> targetId,
                               fromColor |-> playgroundConnections[oderId].color,
                               timestamp |-> now])
                /\ Done(op, s, data,
                        EmitTo(sockets, playgroundConnections[targetId].socketId,
                               "playground:chatInviteReceived",
                               [fromId |-> oderId,
                                fromUsername |-> Username(oderId),
                                fromColor |-> playgroundConnections[oderId].color])
                        \cup EmitSelf(s, "playground:chatInviteSent",
                                      [toId |-> targetId,
                                       toUsername |-> Username(targetId)]))
    /\ UNCHANGED <<playgroundConnections, privateRooms, sockets, nextSocketId, now>>

\* connection.currentRoom = roomId on the entry of oderId, when there is one;
\* whatever the field held is overwritten.
SetCurrentRoomIfFree(conns, oderId, roomId) ==
    IF Has(conns, oderId) /\ conns[oderId].currentRoom = null
    THEN [conns EXCEPT ![oderId].currentRoom = roomId]
    ELSE conns

SetCurrentRoom(conns, oderId, roomId) ==
    IF Has(conns, oderId)
    THEN [conns EXCEPT ![oderId].currentRoom = roomId]
    ELSE conns

\* socket.on('playground:chatInviteAccept')
ChatInviteAccept(s, fromId) ==
    /\ Ready
    /\ Has(sockets, s)
    /\ LET oderId == sockets[s].oderId
           data == [fromId |-> fromId]
           op == "playground:chatInviteAccept"
           inviteKey == InviteKey(fromId, oderId)
       IN  IF fromId = undefined
           THEN /\ Done(op, s, data, {})
                /\ UNCHANGED <<playgroundConnections, privateRooms,
                               pendingInvites, sockets>>
           ELSE IF ~Has(pendingInvites, inviteKey)
           THEN /\ Done(op, s, data, Error(s, "Invite expired or not found"))
                /\ UNCHANGED <<playgroundConnections, privateRooms,
                               pendingInvites, sockets>>
           ELSE IF ~Has(playgroundConnections, fromId)
           THEN /\ pendingInvites' = MapDelete(pendingInvites, inviteKey)
                /\ Done(op, s, data, Error(s, "Player left the playground"))
                /\ UNCHANGED <<playgroundConnections, privateRooms, sockets>>
           ELSE LET roomId == generateRoomId(oderId, fromId, now)
                    conns1 == SetCurrentRoom(playgroundConnections, oderId, roomId)
                    conns2 == SetCurrentRoom(conns1, fromId, roomId)
                    fromConnection == playgroundConnections[fromId]
                    myColor == IF Has(playgroundConnections, oderId)
                               THEN playgroundConnections[oderId].color
                               ELSE sockets[s].color
                IN  /\ privateRooms' =
                           MapSet(privateRooms, roomId,
                                  [members |-> <<oderId, fromId>>,
                                   messages |-> <<>>, createdAt |-> now])
                    /\ playgroundConnections' = conns2
                    /\ sockets' = Join(Join(sockets, s, roomId),
                                       fromConnection.socketId, roomId)
                    /\ pendingInvites' = MapDelete(pendingInvites, inviteKey)
                    /\ Done(op, s, data,
                            EmitSelf(s, "playground:chatRoomJoined",
                                     [roomId |-> roomId, partnerId |-> fromId,
                                      partnerUsername |-> Username(fromId),
                                      partnerColor |-> fromConnection.color])
                            \cup EmitTo(sockets, fromConnection.socketId,
                                        "playground:chatRoomJoined",
                                        [roomId |-> roomId, partnerId |-> oderId,
                                         partnerUsername |-> Username(oderId),
                                         partnerColor |-> myColor]))
    /\ UNCHANGED <<nextSocketId, now>>

\* socket.on('playground:chatInviteDecline')
ChatInviteDecline(s, fromId) ==
    /\ Ready
    /\ Has(sockets, s)
    /\ LET oderId == sockets[s].oderId
           data == [fromId |-> fromId]
           op == "playground:chatInviteDecline"
           inviteKey == InviteKey(fromId, oderId)
       IN  IF fromId # undefined /\ Has(pendingInvites, inviteKey)
           THEN /\ pendingInvites' = MapDelete(pendingInvites, inviteKey)
                /\ Done(op, s, data,
                        IF Has(playgroundConnections, fromId)
                        THEN EmitTo(sockets, playgroundConnections[fromId].socketId,
                                    "playground:chatInviteDeclined",
                                    [byId |-> oderId, byUsername |-> Username(oderId)])
                        ELSE {})
           ELSE /\ Done(op, s, data, {})
                /\ UNCHANGED pendingInvites
    /\ UNCHANGED <<playgroundConnections, privateRooms, sockets, nextSocketId, now>>

\* room.messages.push(msgData); if (room.messages.length > 100) room.messages.shift()
PushUnbounded(messages, msgData) == Append(messages, msgData)

PushMessage(messages, msgData) ==
    IF Len(messages) + 1 > MAX_ROOM_HISTORY
    THEN Tail(Append(messages, msgData))
    ELSE Append(messages, msgData)

\* socket.on('playground:privateMessage'); roomId null when left out, message
\* the empty string when left out or empty.
PrivateMessage(s, roomId, message) ==
    /\ Ready
    /\ Has(sockets, s)
    /\ LET oderId == sockets[s].oderId
           data == [roomId |-> roomId, message |-> message]
           op == "playground:privateMessage"
           sanitizedMessage == Sanitize(message)
       IN  IF roomId = null \/ message = <<>>
           THEN /\ Done(op, s, data, {})
                /\ UNCHANGED privateRooms
           ELSE IF ~Has(privateRooms, roomId)
           THEN /\ Done(op, s, data, Error(s, "Chat room not found"))
                /\ UNCHANGED privateRooms
           ELSE IF ~IsMember(privateRooms[roomId], oderId)
           THEN /\ Done(op, s, data, Error(s, "Access denied"))
                /\ UNCHANGED privateRooms
           ELSE IF sanitizedMessage = <<>>
           THEN /\ Done(op, s, data, {})
                /\ UNCHANGED privateRooms
           ELSE LET msgData == [roomId |-> roomId, fromId |-> oderId,
                                fromUsername |-> Username(oderId),
                                fromColor |->
                                    IF Has(playgroundConnections, oderId)
                                    THEN playgroundConnections[oderId].color
                                    ELSE "#ffffff",
                                message |-> sanitizedMessage,
                                timestamp |-> now]
                IN  /\ privateRooms' =
                           [privateRooms EXCEPT ![roomId].messages =
                                PushMessage(@, msgData)]
                    /\ Done(op, s, data,
                            EmitRoom(sockets, roomId,
                                     "playground:privateMessageReceived", msgData))
    /\ UNCHANGED <<playgroundConnections, pendingInvites, sockets, nextSocketId, now>>

\* What the leaveChat handler of socket s makes of the state when roomId names
\* a room of the room map: the connection map, the sockets' channels, the room
\* map and the events it emits.
LeaveChatResult(s, roomId) ==
    LET oderId == sockets[s].oderId
        room == privateRooms[roomId]
        conns1 == IF Has(playgroundConnections, oderId)
                  THEN [playgroundConnections EXCEPT ![oderId].currentRoom = null]
                  ELSE playgroundConnections
        otherMemberId == OtherMember(room.members, oderId)
        otherThere == otherMemberId # undefined /\ Has(conns1, otherMemberId)
    IN  [connections |->
             IF otherThere
             THEN [conns1 EXCEPT ![otherMemberId].currentRoom = null]
             ELSE conns1,
         sockets |->
             IF otherThere
             THEN Leave(Leave(sockets, s, roomId),
                        conns1[otherMemberId].socketId, roomId)
             ELSE Leave(sockets, s, roomId),
         rooms |-> MapDelete(privateRooms, roomId),
         emitted |->
             IF otherThere
             THEN EmitTo(sockets, conns1[otherMemberId].socketId,
                         "playground:chatRoomClosed",
                         [roomId |-> roomId,
                          reason |-> Username(oderId) \o " left the chat"])
             ELSE {}]

\* socket.on('playground:leaveChat'); roomId null when left out.
LeaveChat(s, roomId) ==
    /\ Ready
    /\ Has(sockets, s)
    /\ LET data == [roomId |-> roomId]
           op == "playground:leaveChat"
       IN  IF roomId = null \/ ~Has(privateRooms, roomId)
           THEN /\ Done(op, s, data, {})
                /\ UNCHANGED <<playgroundConnections, privateRooms, sockets>>
           ELSE /\ playgroundConnections' = LeaveChatResult(s, roomId).connections
                /\ sockets' = LeaveChatResult(s, roomId).sockets
                /\ privateRooms' = LeaveChatResult(s, roomId).rooms
                /\ Done(op, s, data, LeaveChatResult(s, roomId).emitted)
    /\ UNCHANGED <<pendingInvites, nextSocketId, now>>

\* invite.fromId === oderId || invite.toId === oderId, the test of the invite
\* cleanup on disconnect.
InvolvesSender(invite, oderId) == invite.fromId = oderId

InvolvesAnyone(invite, oderId) == TRUE

InvolvesPlayer(invite, oderId) == invite.fromId = oderId \/ invite.toId = oderId

\* socket.on('disconnect'): the socket has left every channel when it runs.
Disconnect(s) ==
    /\ Ready
    /\ Has(sockets, s)
    /\ LET oderId == sockets[s].oderId
           op == "disconnect"
           socks == MapDelete(sockets, s)
           hasRoom == /\ Has(playgroundConnections, oderId)
                      /\ playgroundConnections[oderId].currentRoom # null
                      /\ Has(privateRooms, playgroundConnections[oderId].currentRoom)
           currentRoom == playgroundConnections[oderId].currentRoom
           otherMemberId == OtherMember(privateRooms[currentRoom].members, oderId)
           otherThere == /\ hasRoom
                         /\ otherMemberId # undefined
                         /\ Has(playgroundConnections, otherMemberId)
           conns1 == IF otherThere
                     THEN [playgroundConnections EXCEPT
                               ![otherMemberId].currentRoom = null]
                     ELSE playgroundConnections
       IN  /\ sockets' = socks
           /\ privateRooms' = IF hasRoom
                              THEN MapDelete(privateRooms, currentRoom)
                              ELSE privateRooms
           /\ pendingInvites' =
                  [key \in {k \in DOMAIN pendingInvites :
                              ~InvolvesPlayer(pendingInvites[k], oderId)}
                     |-> pendingInvites[key]]
           /\ playgroundConnections' = MapDelete(conns1, oderId)
           /\ Done(op, s, [oderId |-> oderId],
                   (IF otherThere
                    THEN EmitTo(socks, playgroundConnections[otherMemberId].socketId,
                                "playground:chatRoomClosed",
                                [roomId |-> currentRoom,
                                 reason |-> Username(oderId) \o " disconnected"])
                    ELSE {})
                   \cup EmitGlobalExcept(socks, s, "playground:playerLeft",
                                         [oderId |-> oderId,
                                          username |-> Username(oderId)]))
    /\ UNCHANGED <<nextSocketId, now>>

\* The handler returns: its packets are on the wire and the event loop takes
\* the next event.
Flush ==
    /\ ~crashed
    /\ last # Idle
    /\ last' = Idle
    /\ emitted' = {}
    /\ UNCHANGED <<playgroundConnections, privateRooms, pendingInvites, sockets,
                   nextSocketId, now, crashed, events>>

\* Time passes between two events.
Tick ==
    /\ Ready
    /\ now < MaxClock
    /\ now' = now + 1
    /\ UNCHANGED <<playgroundConnections, privateRooms, pendingInvites, sockets,
                   nextSocketId, emitted, last, crashed, events>>

\* The room ids a client names: the rooms there are, one there is not, none.
RoomIdInputs == DOMAIN privateRooms \cup {StaleRoomId, null}

\* The messages a client sends: every text to every room there is, and one text
\* to a room there is not and to no room.
MessageInputs ==
    ((DOMAIN privateRooms) \X Texts) \cup {<<StaleRoomId, Hi>>, <<null, Hi>>}

Next ==
    \/ \E oderId \in Players, spawn \in SpawnPoints, color \in Colors :
           Connection(oderId, spawn, color) /\ ServerStep
    \/ \E s \in DOMAIN sockets, pt \in MovePoints :
           Move(s, MoveData(pt, "down", "true")) /\ ServerStep
    \/ \E s \in DOMAIN sockets, targetId \in Players \cup {undefined} :
           ChatInvite(s, targetId) /\ ServerStep
    \/ \E s \in DOMAIN sockets, fromId \in Players \cup {undefined} :
           ChatInviteAccept(s, fromId) /\ ServerStep
    \/ \E s \in DOMAIN sockets, fromId \in Players \cup {undefined} :
           ChatInviteDecline(s, fromId) /\ ServerStep
    \/ \E s \in DOMAIN sockets, m \in MessageInputs :
           PrivateMessage(s, m[1], m[2]) /\ ServerStep
    \/ \E s \in DOMAIN sockets, roomId \in RoomIdInputs :
           LeaveChat(s, roomId) /\ ServerStep
    \/ \E s \in DOMAIN sockets : Disconnect(s) /\ ServerStep
    \/ Flush /\ ServerStep
    \/ Tick /\ ServerStep

Spec == Init /\ [][Next]_vars

(***************************************************************************)
(* A run that starts with a room in place: A (socket 1) and B (socket 2)   *)
(* are connected, B has invited A and A has accepted at time 0, and the    *)
(* two have exchanged no message yet, or MAX_ROOM_HISTORY - 1 of them.     *)
(* The run is MaxMessages privateMessage events.                           *)
(***************************************************************************)
ChatRoomId == generateRoomId(PlayerOrder[1], PlayerOrder[2], 0)

\* The i-th message of the exchange: the two take turns, and the i-th text is
\* i characters long.
ChatMessage(i) ==
    LET oderId == PlayerOrder[IF i % 2 = 1 THEN 1 ELSE 2]
    IN  [roomId |-> ChatRoomId, fromId |-> oderId,
         fromUsername |-> Username(oderId),
         fromColor |-> CHOOSE color \in Colors : TRUE,
         message |-> Repeat("m", i), timestamp |-> 0]

ChatHistory(n) == [i \in 1..n |-> ChatMessage(i)]

ChatInit ==
    /\ playgroundConnections =
           [oderId \in {PlayerOrder[1], PlayerOrder[2]} |->
               [socketId |-> Ord(oderId), oderId |-> oderId,
                color |-> CHOOSE color \in Colors : TRUE,
                x |-> Num(500), y |-> Num(500),
                direction |-> "down", isMoving |-> "false",
                currentRoom |-> ChatRoomId]]
    /\ \E n \in {0, MAX_ROOM_HISTORY - 1} :
           privateRooms =
               MapSet(EmptyMap, ChatRoomId,
                      [members |-> <<PlayerOrder[1], PlayerOrder[2]>>,
                       messages |-> ChatHistory(n), createdAt |-> 0])
    /\ pendingInvites = EmptyMap
    /\ sockets = [s \in {1, 2} |->
                     [oderId |-> PlayerOrder[s],
                      color |-> CHOOSE color \in Colors : TRUE,
                      rooms |-> {ChatRoomId}]]
    /\ nextSocketId = 2
    /\ now = 0
    /\ emitted = {}
    /\ last = Idle
    /\ crashed = FALSE
    /\ events = MaxEvents - MaxMessages
    /\ users = Registered
    /\ clients = EmptyMap

ChatNext ==
    \/ \E s \in DOMAIN sockets, roomId \in DOMAIN privateRooms,
          message \in Texts \cup LongTexts :
           PrivateMessage(s, roomId, message) /\ ServerStep
    \/ Flush /\ ServerStep
    \/ Tick /\ ServerStep

SpecChat == ChatInit /\ [][ChatNext]_vars

(***************************************************************************)
(* The lobby: handshakes with every kind of token, moves with every kind   *)
(* of payload, disconnects.                                                *)
(***************************************************************************)
\* A token is <<"signed", userId>> when JWT_SECRET signed it, <<"forged",
\* userId>> when it did not (or the token has expired), and null when the
\* handshake carries none.  jwt.verify accepts the signed ones.
VerifiesAny(token) == TRUE

Verifies(token) == token[1] = "signed"

\* db.users[oderId]: the accounts that have a profile.  "Z" has a signed token
\* and no profile (the account is gone).
HasProfile(oderId) == oderId \in Players

Tokens ==
    {null, <<"forged", PlayerOrder[1]>>, <<"signed", "Z">>}
    \cup {<<"signed", oderId>> : oderId \in Players}

\* io.use and the head of io.on('connection'): a handshake without a token or
\* with a token that does not verify is refused by the middleware; one whose
\* user has no profile is disconnected before anything is registered; any
\* other goes on as Connection.
Handshake(token, spawn, color) ==
    IF token = null \/ ~Verifies(token)
    THEN /\ Ready
         /\ Done("connect_error", 0, [token |-> token], {})
         /\ UNCHANGED <<playgroundConnections, privateRooms, pendingInvites,
                        sockets, nextSocketId, now>>
    ELSE IF ~HasProfile(token[2])
    THEN /\ Ready
         /\ Done("connection", 0, [token |-> token], {})
         /\ UNCHANGED <<playgroundConnections, privateRooms, pendingInvites,
                        sockets, nextSocketId, now>>
    ELSE Connection(token[2], spawn, color)

\* The moves of the lobby: with every field, without direction and isMoving,
\* with isMoving false, and without a payload.
LobbyMoves ==
    { MoveData(<<Num(560), Num(580)>>, "left", "true"),
      MoveData(<<Num(580), Num(580)>>, undefined, undefined),
      MoveData(<<Num(560), Num(580)>>, "up", "false"),
      <<>> }

LobbyNext ==
    \/ \E token \in Tokens, spawn \in SpawnPoints, color \in Colors :
           Handshake(token, spawn, color) /\ ServerStep
    \/ \E s \in DOMAIN sockets, payload \in LobbyMoves :
           Move(s, payload) /\ ServerStep
    \/ \E s \in DOMAIN sockets : Disconnect(s) /\ ServerStep
    \/ Flush /\ ServerStep

SpecLobby == Init /\ [][LobbyNext]_vars

(***************************************************************************)
(* A run that starts with the three players in the playground, each with   *)
(* one socket, at the spawn point, after the first of them has invited the *)
(* two others at time 0; the run is MaxMeet events long.                   *)
(***************************************************************************)
MeetInvite(toId) ==
    [fromId |-> PlayerOrder[1], toId |-> toId, fromColor |-> "#00ff88",
     timestamp |-> 0]

MeetInit ==
    /\ playgroundConnections =
           [oderId \in Players |->
               [socketId |-> Ord(oderId), oderId |-> oderId, color |-> "#00ff88",
                x |-> Num(500), y |-> Num(500),
                direction |-> "down", isMoving |-> "false",
                currentRoom |-> null]]
    /\ privateRooms = EmptyMap
    /\ pendingInvites =
           [k \in {InviteKey(PlayerOrder[1], toId) : toId \in Players \ {PlayerOrder[1]}}
               |-> MeetInvite(k[2])]
    /\ sockets = [s \in 1..Len(PlayerOrder) |->
                     [oderId |-> PlayerOrder[s], color |-> "#00ff88", rooms |-> {}]]
    /\ nextSocketId = Len(PlayerOrder)
    /\ now = 0
    /\ emitted = {}
    /\ last = Idle
    /\ crashed = FALSE
    /\ events = MaxEvents - MaxMeet
    /\ users = Registered
    /\ clients = EmptyMap

SpecMeet == MeetInit /\ [][Next]_vars

(***************************************************************************)
(* Account pairing over the REST endpoints.  A request is handled in one   *)
(* step; its answer is the status it ends with.  The spaces themselves     *)
(* (db.spaces) are left out: an account only names its space.              *)
(***************************************************************************)
\* The user ids a request carries: the registered ones and one that is not.
UserIds == Players \cup {"Z"}

\* The handlers of the REST endpoints touch nothing of the playground.
RestStep ==
    UNCHANGED <<playgroundConnections, privateRooms, pendingInvites, sockets,
                nextSocketId, now, clients>>

\* res.status(status).json(...)
Respond(op, data, status) ==
    Done(op, 0, [request |-> data, status |-> status], {})

\* app.post('/api/invite')
ApiInvite(userId, targetId) ==
    /\ Ready
    /\ LET op == "POST /api/invite"
           data == [userId |-> userId, targetId |-> targetId]
       IN  IF ~Has(users, userId) \/ ~Has(users, targetId)
           THEN Respond(op, data, 404) /\ UNCHANGED users
           ELSE IF userId = targetId
           THEN Respond(op, data, 400) /\ UNCHANGED users
           ELSE IF users[targetId].pendingInvite # null
           THEN Respond(op, data, 400) /\ UNCHANGED users
           ELSE IF users[targetId].partnerId # null
           THEN Respond(op, data, 400) /\ UNCHANGED users
           ELSE /\ users' = [users EXCEPT ![targetId].pendingInvite =
                                Some([fromId |-> userId,
                                      fromName |-> Username(userId),
                                      timestamp |-> now])]
                /\ Respond(op, data, 200)
    /\ RestStep

\* app.post('/api/invite/respond'); accept is "true" or "false".
ApiInviteRespond(userId, accept) ==
    /\ Ready
    /\ LET op == "POST /api/invite/respond"
           data == [userId |-> userId, accept |-> accept]
       IN  IF ~Has(users, userId) \/ users[userId].pendingInvite = null
           THEN Respond(op, data, 400) /\ UNCHANGED users
           ELSE LET senderId == users[userId].pendingInvite[1].fromId
                IN  IF accept = "true" /\ ~Has(users, senderId)
                    THEN /\ users' = [users EXCEPT ![userId].pendingInvite = null]
                         /\ Respond(op, data, 400)
                    ELSE IF accept = "true"
                    THEN /\ users' = [users EXCEPT
                                 ![userId].spaceId = users[senderId].spaceId,
                                 ![userId].partnerId = Some(senderId),
                                 ![senderId].partnerId = Some(userId),
                                 ![userId].pendingInvite = null]
                         /\ Respond(op, data, 200)
                    ELSE /\ users' = [users EXCEPT ![userId].pendingInvite = null]
                         /\ Respond(op, data, 200)
    /\ RestStep

\* app.post('/api/disconnect')
ApiDisconnect(userId) ==
    /\ Ready
    /\ LET op == "POST /api/disconnect"
           data == [userId |-> userId]
       IN  IF ~Has(users, userId)
           THEN Respond(op, data, 404) /\ UNCHANGED users
           ELSE IF users[userId].partnerId = null
           THEN Respond(op, data, 400) /\ UNCHANGED users
           ELSE LET partnerId == users[userId].partnerId[1]
                    users1 == [users EXCEPT
                                  ![userId].partnerId = null,
                                  ![userId].spaceId = "SPACE_" \o userId]
                IN  /\ users' = IF Has(users, partnerId)
                                THEN [users1 EXCEPT
                                         ![partnerId].partnerId = null,
                                         ![partnerId].spaceId = "SPACE_" \o partnerId]
                                ELSE users1
                    /\ Respond(op, data, 200)
    /\ RestStep

\* The answer is sent.
Answered == Flush /\ UNCHANGED <<users, clients>>

PairNext ==
    \/ \E userId \in UserIds, targetId \in UserIds : ApiInvite(userId, targetId)
    \/ \E userId \in UserIds, accept \in {"true", "false"} :
           ApiInviteRespond(userId, accept)
    \/ \E userId \in UserIds : ApiDisconnect(userId)
    \/ Answered

SpecPairing == Init /\ [][PairNext]_vars

(***************************************************************************)
(* The playground with its browsers (public/playground.js).  Each of the   *)
(* three players is connected with one socket and has the two others in    *)
(* its nearby list.  What a browser emits is handled by the server in the  *)
(* same step (one connection delivers in order and a handler runs to       *)
(* completion), and what a handler emits reaches the browsers before the   *)
(* server takes the next event.  The run has MaxInvites invites at most.   *)
(***************************************************************************)
\* pendingInviteFromId and inviteTimeout after hideInviteCard().
CardHidden == [pendingInviteFromId |-> null, inviteTimeout |-> FALSE]

\* pendingInviteFromId = data.fromId; showInviteCard(...): the card of the
\* latest invite, and the ten-second timer started anew.
CardShown(fromId) == [pendingInviteFromId |-> Some(fromId), inviteTimeout |-> TRUE]

\* The browser's handlers for the events evs of one server step: an invite
\* shows its card, chatRoomJoined opens the chat and hides the card, and no
\* other event touches the card.
Received(card, evs) ==
    IF \E e \in evs : e.ev = "playground:chatInviteReceived"
    THEN CardShown((CHOOSE e \in evs :
                        e.ev = "playground:chatInviteReceived").data.fromId)
    ELSE IF \E e \in evs : e.ev = "playground:chatRoomJoined"
    THEN CardHidden
    ELSE card

CardInit ==
    /\ playgroundConnections =
           [oderId \in Players |->
               [socketId |-> Ord(oderId), oderId |-> oderId, color |-> "#00ff88",
                x |-> Num(500), y |-> Num(500),
                direction |-> "down", isMoving |-> "false",
                currentRoom |-> null]]
    /\ privateRooms = EmptyMap
    /\ pendingInvites = EmptyMap
    /\ sockets = [s \in 1..Len(PlayerOrder) |->
                     [oderId |-> PlayerOrder[s], color |-> "#00ff88", rooms |-> {}]]
    /\ nextSocketId = Len(PlayerOrder)
    /\ now = 0
    /\ emitted = {}
    /\ last = Idle
    /\ crashed = FALSE
    /\ events = MaxEvents - 2 * MaxInvites
    /\ users = Registered
    /\ clients = [s \in 1..Len(PlayerOrder) |-> CardHidden]

\* A click on the Chat button of a nearby player.
ClickChat(s, targetId) ==
    /\ events < MaxEvents - MaxInvites
    /\ targetId # sockets[s].oderId
    /\ ChatInvite(s, targetId)
    /\ UNCHANGED <<users, clients>>

\* A click on the Accept button of the invite card.
ClickAccept(s) ==
    /\ clients[s].pendingInviteFromId # null
    /\ ChatInviteAccept(s, clients[s].pendingInviteFromId[1])
    /\ clients' = [clients EXCEPT ![s] = CardHidden]
    /\ UNCHANGED users

\* A click on the Decline button of the invite card.
ClickDecline(s) ==
    /\ clients[s].pendingInviteFromId # null
    /\ ChatInviteDecline(s, clients[s].pendingInviteFromId[1])
    /\ clients' = [clients EXCEPT ![s] = CardHidden]
    /\ UNCHANGED users

\* The timer of showInviteCard fires: the invite on the card is declined.
InviteTimeout(s) ==
    /\ clients[s].inviteTimeout
    /\ IF clients[s].pendingInviteFromId # null
       THEN ChatInviteDecline(s, clients[s].pendingInviteFromId[1])
       ELSE /\ Ready
            /\ UNCHANGED <<playgroundConnections, privateRooms, pendingInvites,
                           sockets, nextSocketId, now, emitted, last, crashed,
                           events>>
    /\ clients' = [clients EXCEPT ![s] = CardHidden]
    /\ UNCHANGED users

\* The events of the handler reach the browsers.
Deliver ==
    /\ Flush
    /\ clients' = [s \in DOMAIN clients |->
                      Received(clients[s], {e \in emitted : e.to = s})]
    /\ UNCHANGED users

CardNext ==
    \/ \E s \in DOMAIN sockets, targetId \in Players : ClickChat(s, targetId)
    \/ \E s \in DOMAIN sockets : ClickAccept(s)
    \/ \E s \in DOMAIN sockets : ClickDecline(s)
    \/ \E s \in DOMAIN sockets : InviteTimeout(s)
    \/ Deliver

\* A handler's events are delivered, and a timer that is running fires.
SpecCards ==
    /\ CardInit
    /\ [][CardNext]_vars
    /\ WF_vars(Deliver)
    /\ \A s \in 1..Len(PlayerOrder) : WF_vars(InviteTimeout(s))

(***************************************************************************)
(* Room invariants.                                                        *)
(***************************************************************************)
Members(roomId) ==
    {privateRooms[roomId].members[i] : i \in 1..Len(privateRooms[roomId].members)}

\* C1: every room of the room map has exactly two members, and the two are
\* different players; no chatInvite / chatInviteAccept sequence, a player
\* naming itself as target included, makes a room of one player twice.
C1_RoomHasTwoDistinctMembers ==
    \A roomId \in DOMAIN privateRooms :
        /\ Len(privateRooms[roomId].members) = 2
        /\ privateRooms[roomId].members[1] # privateRooms[roomId].members[2]

\* C2: no player is a member of two different rooms of the room map.
C2_NoPlayerInTwoRooms ==
    \A r1, r2 \in DOMAIN privateRooms :
        r1 # r2 => Members(r1) \cap Members(r2) = {}

\* C3: for every room R of the room map, the connection entry of each member
\* of R has currentRoom equal to R's id.
C3_MembersPointAtRoom ==
    \A roomId \in DOMAIN privateRooms :
        \A m \in Members(roomId) :
            Has(playgroundConnections, m)
                => playgroundConnections[m].currentRoom = roomId

\* C4: both members of every room of the room map are registered players; once
\* a disconnect of P is processed, no room lists P.
C4_MembersAreRegistered ==
    /\ \A roomId \in DOMAIN privateRooms :
           Members(roomId) \subseteq DOMAIN playgroundConnections
    /\ last.op = "disconnect" =>
           \A roomId \in DOMAIN privateRooms :
               last.data.oderId \notin Members(roomId)

(***************************************************************************)
(* Private messages.                                                       *)
(***************************************************************************)
PMR == "playground:privateMessageReceived"

\* The player a live socket is authenticated as.
Owner(s) == sockets[s].oderId

\* The step is the privateMessage handler, called for a room of the room map
\* by a player who is not one of its members.
NonMemberMessageStep ==
    /\ last = Idle
    /\ last'.op = "playground:privateMessage"
    /\ Has(privateRooms, last'.data.roomId)
    /\ Owner(last'.socket) \notin Members(last'.data.roomId)

\* C5, as claimed: a privateMessage for room R from a player X who is not a
\* member of R appends nothing to any history, emits no
\* private-message-received, and X alone receives an error event.
C5_NonMemberGetsError ==
    [][NonMemberMessageStep =>
          /\ privateRooms' = privateRooms
          /\ emitted' # {}
          /\ \A e \in emitted' :
                 e.to = last'.socket /\ e.ev = "playground:error"]_vars

\* C5, amended: a privateMessage for room R from a non-member X appends nothing
\* and emits no private-message-received; X alone receives an error event when
\* the message field is not empty, and nothing at all is emitted when it is
\* empty or missing.
C5_NonMemberRejected ==
    [][NonMemberMessageStep =>
          /\ privateRooms' = privateRooms
          /\ emitted' = IF last'.data.message = <<>>
                        THEN {}
                        ELSE Error(last'.socket, "Access denied")]_vars

\* The privateMessage handler has just refused a non-member's message.
C5_Witness ==
    /\ last.op = "playground:privateMessage"
    /\ Has(privateRooms, last.data.roomId)
    /\ Owner(last.socket) \notin Members(last.data.roomId)
    /\ privateRooms[last.data.roomId].members[1]
           # privateRooms[last.data.roomId].members[2]
    /\ emitted = Error(last.socket, "Access denied")

\* C6: the sockets joined to the channel of a room of the room map are sockets
\* of that room's members, and every private-message-received goes to a socket
\* of a member of the room it names.
C6_ChannelWithinMembers ==
    /\ \A roomId \in DOMAIN privateRooms :
           \A s \in DOMAIN sockets :
               roomId \in sockets[s].rooms => Owner(s) \in Members(roomId)
    /\ \A e \in emitted :
           e.ev = PMR => Owner(e.to) \in Members(e.data.roomId)

\* A message has been relayed to the two members of a room while a third
\* player is connected.
C6_Witness ==
    /\ last.op = "playground:privateMessage"
    /\ Cardinality({e.to : e \in {f \in emitted : f.ev = PMR}}) = 2
    /\ \E s \in DOMAIN sockets : Owner(s) \notin Members(last.data.roomId)

\* The handler that has just run is privateMessage, called by a member of a
\* room of the room map with a text that is not empty after trimming.
MemberMessage ==
    /\ last.op = "playground:privateMessage"
    /\ Has(privateRooms, last.data.roomId)
    /\ Owner(last.socket) \in Members(last.data.roomId)
    /\ trim(last.data.message) # <<>>

\* C7: a privateMessage of member A to room R, not empty after trimming, is
\* delivered as private-message-received to A and to the other member B, with
\* the text cut to 200 characters.
C7_DeliveredToBothMembers ==
    MemberMessage =>
        \A m \in Members(last.data.roomId) :
            \E e \in emitted :
                /\ e.ev = PMR
                /\ Owner(e.to) = m
                /\ e.data.message = Sanitize(last.data.message)

(***************************************************************************)
(* Proximity.                                                              *)
(***************************************************************************)
\* The Euclidean distance between the stored positions of P and Q is at most
\* PROXIMITY_RADIUS: both positions are numbers and dx^2 + dy^2 <= 100^2.
Near(P, Q) ==
    LET p == playgroundConnections[P]
        q == playgroundConnections[Q]
    IN  /\ IsNum(p.x) /\ IsNum(p.y) /\ IsNum(q.x) /\ IsNum(q.y)
        /\ (p.x[1] - q.x[1]) * (p.x[1] - q.x[1])
             + (p.y[1] - q.y[1]) * (p.y[1] - q.y[1])
           <= PROXIMITY_RADIUS * PROXIMITY_RADIUS

NearbyIds(P) ==
    {Q \in DOMAIN playgroundConnections : Q # P /\ Near(P, Q)}

\* C8: for connected P, getNearbyPlayers(P) lists Q exactly when Q is connected,
\* Q # P and the distance of their stored positions is at most 100, whatever
\* the rooms and invites; and the nearby-players a move sends is that list.
C8_NearbyIffWithinRadius ==
    /\ \A P \in DOMAIN playgroundConnections :
           {n.oderId : n \in getNearbyPlayers(playgroundConnections, P)}
               = NearbyIds(P)
    /\ (last.op = "playground:move" /\ Has(playgroundConnections, Owner(last.socket)))
           => \E e \in emitted :
                 /\ e.ev = "playground:nearbyPlayers"
                 /\ e.to = last.socket
                 /\ {n.oderId : n \in e.data.nearby} = NearbyIds(Owner(last.socket))

\* A move has just put P at distance exactly 100 of Q, who shares a room with P
\* and is listed, while a third player is farther and is not.
C8_Witness ==
    /\ last.op = "playground:move"
    /\ \E e \in emitted :
           /\ e.ev = "playground:nearbyPlayers"
           /\ \E n \in e.data.nearby :
                  /\ n.distance = Num(PROXIMITY_RADIUS)
                  /\ RoomsBetween(privateRooms, Owner(last.socket), n.oderId) # {}
           /\ \E Q \in DOMAIN playgroundConnections :
                  /\ Q # Owner(last.socket)
                  /\ \A n \in e.data.nearby : n.oderId # Q

\* The step is the chatInvite handler and it stores an invite.
InviteStoredStep ==
    /\ last = Idle
    /\ last'.op = "playground:chatInvite"
    /\ \E e \in emitted' : e.ev = "playground:chatInviteSent"

\* C9: a chatInvite from A to B stores the invite (A,B) only if B is connected,
\* the distance of the stored positions of A and B is at most PROXIMITY_RADIUS,
\* and no room contains both A and B.
C9_InviteOnlyWithinRadius ==
    [][InviteStoredStep =>
          LET A == Owner(last'.socket)
              B == last'.data.targetId
          IN  /\ Has(pendingInvites', <<A, B>>)
              /\ Has(playgroundConnections, A)
              /\ Has(playgroundConnections, B)
              /\ Near(A, B)
              /\ RoomsBetween(privateRooms, A, B) = {}]_vars

\* The step is the chatInvite handler, called by A for a player B, and a
\* precondition fails: B is not connected, or B is farther than
\* PROXIMITY_RADIUS from A, or a room contains both.
InviteRefusedStep ==
    /\ last = Idle
    /\ last'.op = "playground:chatInvite"
    /\ last'.data.targetId \in Players
    /\ LET A == Owner(last'.socket)
           B == last'.data.targetId
       IN  \/ ~Has(playgroundConnections, B)
           \/ /\ Has(playgroundConnections, A)
              /\ Has(playgroundConnections, B)
              /\ TooFar(getDistance(playgroundConnections[A],
                                    playgroundConnections[B]))
           \/ RoomsBetween(privateRooms, A, B) # {}

\* C10: a chatInvite that fails a precondition sends one error event, to the
\* inviter only, and leaves the connection, room and invite maps as they were.
C10_RefusedInviteOnlyErrors ==
    [][InviteRefusedStep =>
          /\ emitted' # {}
          /\ \A e \in emitted' :
                 e.to = last'.socket /\ e.ev = "playground:error"
          /\ UNCHANGED <<playgroundConnections, privateRooms, pendingInvites>>]_vars

(***************************************************************************)
(* Invites: accept and decline.                                            *)
(***************************************************************************)
CRJ == "playground:chatRoomJoined"

\* The step is the chatInviteAccept handler, called by B for the inviter A
\* while the invite (A,B) is pending and A is connected.
AcceptStep ==
    /\ last = Idle
    /\ last'.op = "playground:chatInviteAccept"
    /\ Has(pendingInvites, <<last'.data.fromId, Owner(last'.socket)>>)
    /\ Has(playgroundConnections, last'.data.fromId)

\* C11: when B accepts the pending invite (A,B) and A is connected, a fresh
\* room with members A and B is put in the room map, the connection entries of
\* A and B get its id as currentRoom, B's socket and A's socket join its
\* channel, the invite (A,B) is removed, and B and A each receive
\* chat-room-joined with that room id, naming the other as partner with the
\* other's username and color.
C11_AcceptCreatesRoom ==
    [][AcceptStep =>
          LET A == last'.data.fromId
              B == Owner(last'.socket)
              sa == playgroundConnections[A].socketId
              sb == last'.socket
          IN  \E roomId \in DOMAIN privateRooms' :
                  /\ privateRooms'[roomId].members \in {<<A, B>>, <<B, A>>}
                  /\ privateRooms'[roomId].messages = <<>>
                  /\ \A r \in DOMAIN privateRooms \ {roomId} :
                         Has(privateRooms', r) /\ privateRooms'[r] = privateRooms[r]
                  /\ DOMAIN privateRooms' = DOMAIN privateRooms \cup {roomId}
                  /\ playgroundConnections'[A].currentRoom = roomId
                  /\ Has(playgroundConnections', B)
                  /\ playgroundConnections'[B].currentRoom = roomId
                  /\ Has(sockets', sa) /\ roomId \in sockets'[sa].rooms
                  /\ roomId \in sockets'[sb].rooms
                  /\ ~Has(pendingInvites', <<A, B>>)
                  /\ Event(sb, CRJ, [roomId |-> roomId, partnerId |-> A,
                                     partnerUsername |-> Username(A),
                                     partnerColor |-> playgroundConnections[A].color])
                         \in emitted'
                  /\ Event(sa, CRJ, [roomId |-> roomId, partnerId |-> B,
                                     partnerUsername |-> Username(B),
                                     partnerColor |-> playgroundConnections[B].color])
                         \in emitted'
                  /\ Owner(sa) = A]_vars

\* B has just accepted A's invite: the two were told of the room, each on its
\* own socket, and both sockets are in its channel.
C11_Witness ==
    /\ last.op = "playground:chatInviteAccept"
    /\ last.data.fromId # Owner(last.socket)
    /\ \E e1, e2 \in emitted :
           /\ e1.ev = CRJ /\ e2.ev = CRJ
           /\ e1.to = last.socket
           /\ Owner(e2.to) = last.data.fromId
           /\ e1.data.roomId = e2.data.roomId
           /\ Has(privateRooms, e1.data.roomId)
           /\ e1.data.roomId \in sockets[e1.to].rooms
           /\ e1.data.roomId \in sockets[e2.to].rooms

\* The step is the chatInviteDecline handler.
DeclineStep ==
    /\ last = Idle
    /\ last'.op = "playground:chatInviteDecline"

\* C12: when B declines the pending invite (A,B), that entry is removed and the
\* other invites stay, A (if connected) receives chat-invite-declined with B's
\* id and username and nothing else is emitted, no room is created and no
\* connection entry changes; a decline naming an inviter with no pending (A,B)
\* changes no state and emits nothing.
C12_DeclineRemovesInvite ==
    [][DeclineStep =>
          LET A == last'.data.fromId
              B == Owner(last'.socket)
              declined ==
                  IF Has(playgroundConnections, A)
                  THEN {Event(playgroundConnections[A].socketId,
                              "playground:chatInviteDeclined",
                              [byId |-> B, byUsername |-> Username(B)])}
                  ELSE {}
          IN  /\ UNCHANGED <<playgroundConnections, privateRooms, sockets>>
              /\ IF Has(pendingInvites, <<A, B>>)
                 THEN /\ DOMAIN pendingInvites' = DOMAIN pendingInvites \ {<<A, B>>}
                      /\ \A k \in DOMAIN pendingInvites' :
                             pendingInvites'[k] = pendingInvites[k]
                      /\ emitted' = declined
                      /\ \A e \in declined : Has(sockets, e.to) /\ Owner(e.to) = A
                 ELSE /\ UNCHANGED pendingInvites
                      /\ emitted' = {}]_vars

\* B has just declined A's invite while another invite is pending, and A was
\* told.
C12_Witness ==
    /\ last.op = "playground:chatInviteDecline"
    /\ pendingInvites # EmptyMap
    /\ \E e \in emitted :
           /\ e.ev = "playground:chatInviteDeclined"
           /\ Owner(e.to) = last.data.fromId
           /\ e.data.byId = Owner(last.socket)
           /\ e.data.byId # last.data.fromId

\* The events that tell a player of an invite.
InviteEvents ==
    {"playground:chatInviteReceived", "playground:chatInviteSent",
     "playground:chatInviteDeclined"}

\* C13: both endpoints of every pending invite are registered players with a
\* live socket; once the disconnect of P is processed no pending invite has P
\* as fromId or toId, and the disconnect emits no invite event.
C13_InvitesBetweenConnected ==
    /\ \A k \in DOMAIN pendingInvites :
           /\ k = <<pendingInvites[k].fromId, pendingInvites[k].toId>>
           /\ \A P \in {pendingInvites[k].fromId, pendingInvites[k].toId} :
                  /\ Has(playgroundConnections, P)
                  /\ Has(sockets, playgroundConnections[P].socketId)
    /\ last.op = "disconnect" =>
           /\ \A k \in DOMAIN pendingInvites :
                  /\ pendingInvites[k].fromId # last.data.oderId
                  /\ pendingInvites[k].toId # last.data.oderId
           /\ \A e \in emitted : e.ev \notin InviteEvents

\* A socket of P has just disconnected while P keeps another live socket, and
\* an invite between two other players is still pending.
C13_Witness ==
    /\ last.op = "disconnect"
    /\ \E s \in DOMAIN sockets : Owner(s) = last.data.oderId
    /\ \E k \in DOMAIN pendingInvites : k[1] # k[2]
    /\ emitted # {}

(***************************************************************************)
(* Room teardown.                                                          *)
(***************************************************************************)
CRC == "playground:chatRoomClosed"

\* The step is the disconnect of a socket of B while B and another player A,
\* who is registered, are the members of room R.
MemberDisconnectStep(R, A, B) ==
    /\ last = Idle
    /\ last'.op = "disconnect"
    /\ Has(privateRooms, R)
    /\ Owner(last'.socket) = B
    /\ A # B
    /\ Members(R) = {A, B}
    /\ Has(playgroundConnections, A)

\* C14: if A and B are the members of room R and B disconnects, then once the
\* disconnect is processed R is not in the room map, A has received
\* chat-room-closed for R with the reason "B disconnected", and A's currentRoom
\* is null.
C14_DisconnectClosesRoom ==
    [][\A R \in DOMAIN privateRooms : \A A, B \in Players :
          MemberDisconnectStep(R, A, B) =>
              /\ ~Has(privateRooms', R)
              /\ playgroundConnections'[A].currentRoom = null
              /\ \E e \in emitted' :
                     /\ e.ev = CRC
                     /\ Owner(e.to) = A
                     /\ e.data = [roomId |-> R,
                                  reason |-> Username(B) \o " disconnected"]]_vars

\* The step is the leaveChat handler, called for room R of the room map.
LeaveStep(R) ==
    /\ last = Idle
    /\ last'.op = "playground:leaveChat"
    /\ last'.data.roomId = R
    /\ Has(privateRooms, R)

\* C15: once a leaveChat for the existing room R is processed, R is not in the
\* room map, the currentRoom of both members is null, no socket of a member is
\* in R's channel, and every registered member other than the leaver has
\* received chat-room-closed for R.
C15_LeaveClosesRoom ==
    [][\A R \in DOMAIN privateRooms :
          LeaveStep(R) =>
              /\ ~Has(privateRooms', R)
              /\ \A m \in Members(R) :
                     Has(playgroundConnections', m)
                         => playgroundConnections'[m].currentRoom = null
              /\ \A s \in DOMAIN sockets' :
                     Owner(s) \in Members(R) => R \notin sockets'[s].rooms
              /\ \A m \in Members(R) \ {Owner(last'.socket)} :
                     Has(playgroundConnections, m)
                         => \E e \in emitted' :
                                /\ e.ev = CRC
                                /\ Owner(e.to) = m
                                /\ e.data.roomId = R]_vars

\* The step is the disconnect of socket s of B, whose connection entry names
\* room R, a room of B and another player A, who is registered: the disconnect
\* tears R down.
CascadeStep(R, A, B) ==
    /\ MemberDisconnectStep(R, A, B)
    /\ Has(playgroundConnections, B)
    /\ playgroundConnections[B].currentRoom = R

\* C16: when the disconnect of member B tears room R down, the room map, the
\* currentRoom of the remaining member A and the channels of A's sockets are
\* what B's leaveChat(R) on the same socket would have made of them.
C16_DisconnectSameAsLeave ==
    [][\A R \in DOMAIN privateRooms : \A A, B \in Players :
          CascadeStep(R, A, B) =>
              LET left == LeaveChatResult(last'.socket, R)
              IN  /\ privateRooms' = left.rooms
                  /\ playgroundConnections'[A].currentRoom
                         = left.connections[A].currentRoom
                  /\ \A t \in DOMAIN sockets' :
                         Owner(t) = A
                             => sockets'[t].rooms = left.sockets[t].rooms]_vars

\* C17: in every reachable state, the currentRoom of every registered player is
\* null or names a room of the room map that lists the player as a member.
C17_NoDanglingCurrentRoom ==
    \A P \in DOMAIN playgroundConnections :
        playgroundConnections[P].currentRoom # null
            => /\ Has(privateRooms, playgroundConnections[P].currentRoom)
               /\ P \in Members(playgroundConnections[P].currentRoom)

(***************************************************************************)
(* Message text and history.                                               *)
(***************************************************************************)
\* The step is the privateMessage handler, called by a member of room R of the
\* room map.
MemberMessageStep(R) ==
    /\ last = Idle
    /\ last'.op = "playground:privateMessage"
    /\ last'.data.roomId = R
    /\ Has(privateRooms, R)
    /\ Owner(last'.socket) \in Members(R)

\* The text of the newest entry of R's history after the step.
StoredText(R) ==
    privateRooms'[R].messages[Len(privateRooms'[R].messages)].message

\* The number of leading and of trailing blanks of a text that is not all
\* blanks.
LeadingBlanks(str) ==
    CHOOSE n \in 0..Len(str) :
        /\ \A i \in 1..n : str[i] = " "
        /\ n < Len(str) => str[n + 1] # " "

TrailingBlanks(str) ==
    CHOOSE n \in 0..Len(str) :
        /\ \A i \in 1..n : str[Len(str) + 1 - i] = " "
        /\ n < Len(str) => str[Len(str) - n] # " "

AllBlank(str) == \A i \in 1..Len(str) : str[i] = " "

\* C18, as claimed: for a privateMessage of a member whose submitted text is
\* longer than 200 characters, a message is stored and relayed, and the text
\* stored and the text relayed have exactly 200 characters.
C18_LongTextStoredAs200 ==
    [][\A R \in DOMAIN privateRooms :
          (MemberMessageStep(R) /\ Len(last'.data.message) > MAX_MESSAGE_LENGTH)
              => /\ privateRooms'[R].messages # privateRooms[R].messages
                 /\ Len(StoredText(R)) = MAX_MESSAGE_LENGTH
                 /\ \A e \in emitted' :
                        e.ev = PMR /\ Len(e.data.message) = MAX_MESSAGE_LENGTH]_vars

\* C18, amended: for a privateMessage of a member whose submitted text, with
\* the blanks at its two ends removed, is longer than 200 characters, the text
\* stored and the text relayed are the first 200 characters of what is between
\* the blanks; when that is 200 characters or less (and not empty), all of it
\* is stored and relayed.
C18_TrimmedTextCutTo200 ==
    [][\A R \in DOMAIN privateRooms :
          (MemberMessageStep(R) /\ ~AllBlank(last'.data.message))
              => LET text == last'.data.message
                     from == LeadingBlanks(text)
                     kept == Len(text) - from - TrailingBlanks(text)
                     cut == IF kept > MAX_MESSAGE_LENGTH
                            THEN MAX_MESSAGE_LENGTH ELSE kept
                 IN  /\ Len(privateRooms'[R].messages) > 0
                     /\ privateRooms'[R].messages # privateRooms[R].messages
                     /\ StoredText(R) = SubSeq(text, from + 1, from + cut)
                     /\ \A e \in emitted' :
                            e.ev = PMR /\ e.data.message = StoredText(R)
                     /\ emitted' # {}]_vars

\* A member has just sent more than 200 characters after a blank: both members
\* were sent 200 characters, and the history ends with them.
C18_Witness ==
    /\ last.op = "playground:privateMessage"
    /\ Len(last.data.message) > MAX_MESSAGE_LENGTH
    /\ last.data.message[1] = " "
    /\ Cardinality({e.to : e \in {f \in emitted : f.ev = PMR}}) = 2
    /\ \A e \in emitted : Len(e.data.message) = MAX_MESSAGE_LENGTH
    /\ LET messages == privateRooms[last.data.roomId].messages
       IN  /\ messages # <<>>
           /\ Len(messages[Len(messages)].message) = MAX_MESSAGE_LENGTH
           /\ messages[Len(messages)].message[1] # " "

\* C19: a privateMessage of a member whose text is empty once the blanks at
\* its ends are removed (the empty text, or blanks only) is dropped silently:
\* the room map and every history are unchanged and nothing is emitted, neither
\* private-message-received nor an error.
C19_BlankTextDropped ==
    [][\A R \in DOMAIN privateRooms :
          (MemberMessageStep(R) /\ AllBlank(last'.data.message))
              => /\ privateRooms' = privateRooms
                 /\ emitted' = {}]_vars

\* A member has just sent a text of blanks only, and nothing was emitted.
C19_Witness ==
    /\ last.op = "playground:privateMessage"
    /\ Has(privateRooms, last.data.roomId)
    /\ Owner(last.socket) \in Members(last.data.roomId)
    /\ last.data.message # <<>>
    /\ AllBlank(last.data.message)
    /\ emitted = {}

\* C20: every history holds at most 100 entries; a message appended to a
\* history of 100 entries evicts the oldest entry and leaves the other 99 in
\* their order before the new one, and a message appended to a shorter history
\* evicts nothing.
C20_HistoryBounded ==
    [][/\ \A R \in DOMAIN privateRooms :
              Len(privateRooms[R].messages) <= MAX_ROOM_HISTORY
       /\ \A R \in DOMAIN privateRooms' :
              Len(privateRooms'[R].messages) <= MAX_ROOM_HISTORY
       /\ \A R \in DOMAIN privateRooms :
              (MemberMessageStep(R) /\ ~AllBlank(last'.data.message))
                  => LET old == privateRooms[R].messages
                         new == privateRooms'[R].messages
                         kept == IF Len(old) = MAX_ROOM_HISTORY
                                 THEN SubSeq(old, 2, Len(old))
                                 ELSE old
                     IN  /\ Len(new) = Len(kept) + 1
                         /\ SubSeq(new, 1, Len(kept)) = kept
                         /\ new[Len(new)].fromId = Owner(last'.socket)
                         /\ new[Len(new)].timestamp = now]_vars

\* A message has just been appended to a full history: the history is still
\* 100 entries long, its first entry is what was the second, and the new
\* message is its last.
C20_Witness ==
    /\ last.op = "playground:privateMessage"
    /\ emitted # {}
    /\ LET messages == privateRooms[ChatRoomId].messages
       IN  /\ Len(messages) = MAX_ROOM_HISTORY
           /\ messages[1] = ChatMessage(2)
           /\ messages[MAX_ROOM_HISTORY - 2] = ChatMessage(MAX_ROOM_HISTORY - 1)
           /\ messages[MAX_ROOM_HISTORY].fromId = Owner(last.socket)

\* The last n entries of a sequence, all of it when it has fewer.
LastN(seq, n) ==
    IF Len(seq) <= n THEN seq ELSE SubSeq(seq, Len(seq) - n + 1, Len(seq))

\* What is kept of a text that is not all blanks: what is between the blanks
\* at its ends, cut to 200 characters.
KeptText(text) ==
    LET from == LeadingBlanks(text)
        kept == Len(text) - from - TrailingBlanks(text)
    IN  SubSeq(text, from + 1,
               from + (IF kept > MAX_MESSAGE_LENGTH THEN MAX_MESSAGE_LENGTH ELSE kept))

\* C21: the history of a room is the last (at most 100) of the messages its
\* members sent and the server accepted, in the order the server processed
\* them: a step that accepts a message of a member puts it after the entries
\* there are, tagged with the id of the player whose connection sent it, and
\* keeps the last 100; every other step leaves the history of every room it
\* does not close as it is.
C21_HistoryInProcessingOrder ==
    [][\A R \in DOMAIN privateRooms \cap DOMAIN privateRooms' :
             IF MemberMessageStep(R) /\ ~AllBlank(last'.data.message)
             THEN LET sender == Owner(last'.socket)
                      entry == [roomId |-> R, fromId |-> sender,
                                fromUsername |-> Username(sender),
                                fromColor |->
                                    IF Has(playgroundConnections, sender)
                                    THEN playgroundConnections[sender].color
                                    ELSE "#ffffff",
                                message |-> KeptText(last'.data.message),
                                timestamp |-> now]
                  IN  privateRooms'[R].messages
                          = LastN(privateRooms[R].messages \o <<entry>>,
                                  MAX_ROOM_HISTORY)
             ELSE privateRooms'[R].messages = privateRooms[R].messages]_vars

(***************************************************************************)
(* Room identifiers.                                                       *)
(***************************************************************************)
\* The step is the chatInviteAccept handler and it creates a room.
RoomCreatedStep ==
    /\ last = Idle
    /\ last'.op = "playground:chatInviteAccept"
    /\ \E e \in emitted' : e.ev = CRJ

\* C22: the identifier a room is created under is the identifier of no room of
\* the room map, so that creating a room overwrites no room and no history.
C22_RoomIdIsFresh ==
    [][RoomCreatedStep =>
          \A e \in emitted' :
              e.ev = CRJ => ~Has(privateRooms, e.data.roomId)]_vars

(***************************************************************************)
(* The lobby.                                                              *)
(***************************************************************************)
\* C23: no event of a registered connection, whatever its payload and whatever
\* the state, makes a handler throw.
C23_NoHandlerThrows == ~crashed

\* A token that is missing, that JWT_SECRET did not sign, or that names a user
\* without a profile.
BadToken(token) ==
    \/ token = null
    \/ token[1] # "signed"
    \/ token[2] \notin Players

\* C24: a handshake whose token is missing or invalid, or names a player
\* without a profile, creates no connection entry and no socket with handlers
\* (so no event of it is ever handled), changes no room and no invite, and
\* emits nothing to anyone.
C24_BadTokenChangesNothing ==
    [][\A token \in Tokens, spawn \in SpawnPoints, color \in Colors :
          (BadToken(token) /\ Handshake(token, spawn, color))
              => /\ UNCHANGED <<playgroundConnections, sockets, nextSocketId,
                               privateRooms, pendingInvites>>
                 /\ emitted' = {}]_vars

\* A handshake with a signed token of a user without a profile has just been
\* dropped while two players are connected: neither was sent anything.
C24_Witness ==
    /\ last.op = "connection"
    /\ last.socket = 0
    /\ last.data.token[1] = "signed"
    /\ Cardinality(DOMAIN playgroundConnections) = 2
    /\ Cardinality(DOMAIN sockets) = 2
    /\ emitted = {}

\* The step is the connection handler of a player with a profile.
JoinStep ==
    /\ last = Idle
    /\ last'.op = "connection"
    /\ last'.socket # 0

\* What a snapshot says of the registered player Q.
Snapshot(Q) ==
    [oderId |-> Q, username |-> Username(Q),
     color |-> playgroundConnections'[Q].color,
     x |-> playgroundConnections'[Q].x, y |-> playgroundConnections'[Q].y,
     direction |-> playgroundConnections'[Q].direction, isMoving |-> "false"]

\* C25: when a player with a profile connects, the joining connection receives
\* one init whose player list is the players registered at that moment, the
\* joiner with its assigned position and color and the others as they are
\* stored, and every other live connection, and not the joining one, receives
\* one player-joined for the new player; nothing else is emitted.
C25_InitToJoinerJoinedToOthers ==
    [][JoinStep =>
          LET s == last'.socket
              P == last'.data.oderId
          IN  /\ DOMAIN playgroundConnections' = DOMAIN playgroundConnections \cup {P}
              /\ \A Q \in DOMAIN playgroundConnections \ {P} :
                     playgroundConnections'[Q] = playgroundConnections[Q]
              /\ playgroundConnections'[P].socketId = s
              /\ <<playgroundConnections'[P].x, playgroundConnections'[P].y>>
                     \in SpawnPoints
              /\ playgroundConnections'[P].color \in Colors
              /\ emitted' =
                     {Event(s, "playground:init",
                            [oderId |-> P,
                             players |-> {Snapshot(Q) :
                                            Q \in DOMAIN playgroundConnections'}])}
                     \cup {Event(t, "playground:playerJoined",
                                 [player |-> playgroundConnections'[P]]) :
                             t \in DOMAIN sockets}
              /\ s \notin DOMAIN sockets]_vars

\* A third player has just connected: it was sent a list of three players, one
\* of whom has moved from its spawn point, and the two others were told.
C25_Witness ==
    /\ last.op = "connection"
    /\ last.socket # 0
    /\ \E e \in emitted :
           /\ e.ev = "playground:init"
           /\ e.to = last.socket
           /\ Cardinality(e.data.players) = 3
           /\ \E q \in e.data.players : <<q.x, q.y>> \notin SpawnPoints
    /\ Cardinality({e.to : e \in {f \in emitted :
                                    f.ev = "playground:playerJoined"}}) = 2

\* The step is the move handler of socket s, called with a payload.
MoveStep ==
    /\ last = Idle
    /\ last'.op = "playground:move"
    /\ ~crashed'

\* The registered players other than P whose position, once the step is done,
\* is within PROXIMITY_RADIUS of P's.
NearbyIdsAfter(P) ==
    IF ~Has(playgroundConnections', P) THEN {}
    ELSE {Q \in DOMAIN playgroundConnections' \ {P} :
            LET p == playgroundConnections'[P]
                q == playgroundConnections'[Q]
            IN  /\ IsNum(p.x) /\ IsNum(p.y) /\ IsNum(q.x) /\ IsNum(q.y)
                /\ (p.x[1] - q.x[1]) * (p.x[1] - q.x[1])
                     + (p.y[1] - q.y[1]) * (p.y[1] - q.y[1])
                   <= PROXIMITY_RADIUS * PROXIMITY_RADIUS}

\* C26: on every move of P one nearby-players event is emitted, it goes to the
\* socket that sent the move, and it lists the players within the radius of the
\* position P has just been given; no other socket receives nearby-players.
C26_NearbyToMoverOnly ==
    [][MoveStep =>
          LET s == last'.socket
              sent == {e \in emitted' : e.ev = "playground:nearbyPlayers"}
          IN  /\ Cardinality(sent) = 1
              /\ \A e \in sent :
                     /\ e.to = s
                     /\ {n.oderId : n \in e.data.nearby} = NearbyIdsAfter(Owner(s))
                     /\ Cardinality(e.data.nearby)
                            = Cardinality(NearbyIdsAfter(Owner(s)))]_vars

\* P has just moved next to Q, away from a third player: P was sent a list
\* with Q alone, and Q and the third player were sent player-moved only.
C26_Witness ==
    /\ last.op = "playground:move"
    /\ Cardinality(DOMAIN sockets) = 3
    /\ \E e \in emitted :
           /\ e.ev = "playground:nearbyPlayers"
           /\ e.to = last.socket
           /\ Cardinality(e.data.nearby) = 1
    /\ \A t \in DOMAIN sockets \ {last.socket} :
           /\ Owner(t) # Owner(last.socket)
           /\ \E e \in emitted : e.to = t /\ e.ev = "playground:playerMoved"
           /\ \A e \in emitted : e.to = t => e.ev = "playground:playerMoved"

\* C27: after a move of the registered player P, every other live socket has
\* been sent one player-moved whose position, direction and moving flag are
\* the ones now stored for P, and the socket that moved has been sent none.
C27_MovedEqualsStored ==
    [][(MoveStep /\ Has(playgroundConnections, Owner(last'.socket))) =>
          LET s == last'.socket
              P == Owner(s)
              stored == playgroundConnections'[P]
          IN  {e \in emitted' : e.ev = "playground:playerMoved"}
                  = {Event(t, "playground:playerMoved",
                           [oderId |-> P, x |-> stored.x, y |-> stored.y,
                            direction |-> stored.direction,
                            isMoving |-> stored.isMoving]) :
                       t \in DOMAIN sockets \ {s}}]_vars

\* C28: once a move of P is processed, the x and y stored for P are the ones of
\* that move, and the entries of the other players, the room map and the
\* invite map are as they were; no step other than P's own move, connection or
\* disconnect changes the x and y stored for P.
C28_MoveStoredNoLostUpdate ==
    [][/\ MoveStep =>
              LET P == Owner(last'.socket)
              IN  /\ Has(playgroundConnections', P)
                  /\ playgroundConnections'[P].x = last'.data.x
                  /\ playgroundConnections'[P].y = last'.data.y
                  /\ \A Q \in DOMAIN playgroundConnections \ {P} :
                         /\ Has(playgroundConnections', Q)
                         /\ playgroundConnections'[Q] = playgroundConnections[Q]
                  /\ UNCHANGED <<privateRooms, pendingInvites>>
       /\ \A Q \in DOMAIN playgroundConnections \cap DOMAIN playgroundConnections' :
              (last' # Idle /\ last'.socket # 0
                   /\ last'.op \notin {"connection", "playground:move"})
                  => /\ playgroundConnections'[Q].x = playgroundConnections[Q].x
                     /\ playgroundConnections'[Q].y = playgroundConnections[Q].y]_vars

\* The step is the disconnect handler.
DisconnectStep ==
    /\ last = Idle
    /\ last'.op = "disconnect"

\* C29: when a connection of P disconnects, every remaining live connection
\* receives one player-left naming P and the disconnected one receives none;
\* once the disconnect is processed P has no entry in the connection map, and
\* every init snapshot and every nearby list lists registered players only.
C29_PlayerLeftToAllRemaining ==
    [][/\ DisconnectStep =>
              LET s == last'.socket
                  P == Owner(s)
              IN  /\ ~Has(playgroundConnections', P)
                  /\ DOMAIN sockets' = DOMAIN sockets \ {s}
                  /\ {e \in emitted' : e.ev = "playground:playerLeft"}
                         = {Event(t, "playground:playerLeft",
                                  [oderId |-> P, username |-> Username(P)]) :
                              t \in DOMAIN sockets \ {s}}
       /\ \A e \in emitted' :
              /\ e.ev = "playground:init"
                     => {q.oderId : q \in e.data.players}
                            \subseteq DOMAIN playgroundConnections'
              /\ e.ev = "playground:nearbyPlayers"
                     => {n.oderId : n \in e.data.nearby}
                            \subseteq DOMAIN playgroundConnections']_vars

\* P has just disconnected: the two other players, who stay registered, were
\* each told once, and P is registered no more.
C29_Witness ==
    /\ last.op = "disconnect"
    /\ ~Has(playgroundConnections, last.data.oderId)
    /\ Cardinality(DOMAIN playgroundConnections) = 2
    /\ Cardinality(DOMAIN sockets) = 2
    /\ \A t \in DOMAIN sockets :
           /\ Has(playgroundConnections, Owner(t))
           /\ Cardinality({e \in emitted : e.to = t}) = 1
           /\ \E e \in emitted :
                  /\ e.to = t
                  /\ e.ev = "playground:playerLeft"
                  /\ e.data.oderId = last.data.oderId

(***************************************************************************)
(* Life of an invite.                                                      *)
(***************************************************************************)
\* C30: a step removes the pending invite (A,B) only if it is B's accept or
\* B's decline of A's invite, or the disconnect of a connection of A or of B;
\* every other step (moves, messages, leaveChat, invites, accepts and declines
\* of other invites, the room of A and B made by the reverse invite) leaves the
\* entry in the invite map.
C30_InviteRemovedOnlyByAnswerOrDisconnect ==
    [][\A k \in DOMAIN pendingInvites :
          ~Has(pendingInvites', k) =>
              /\ last' # Idle
              /\ last'.socket # 0
              /\ \/ /\ last'.op \in {"playground:chatInviteAccept",
                                     "playground:chatInviteDecline"}
                    /\ Owner(last'.socket) = k[2]
                    /\ last'.data.fromId = k[1]
                 \/ /\ last'.op = "disconnect"
                    /\ Owner(last'.socket) \in {k[1], k[2]}]_vars

\* A has just accepted B's invite: the two share a room, and A's own invite
\* to B is still pending.
C30_Witness ==
    /\ last.op = "playground:chatInviteAccept"
    /\ last.data.fromId # Owner(last.socket)
    /\ RoomsBetween(privateRooms, last.data.fromId, Owner(last.socket)) # {}
    /\ Has(pendingInvites, <<Owner(last.socket), last.data.fromId>>)
    /\ ~Has(pendingInvites, <<last.data.fromId, Owner(last.socket)>>)

(***************************************************************************)
(* Who may close a room.                                                   *)
(***************************************************************************)
\* C31: a room R leaves the room map only on a leaveChat or a disconnect of one
\* of R's members; a leaveChat naming R from a player who is not a member of R
\* leaves R, the currentRoom of its members and the channels of their sockets
\* as they were, and emits nothing to a member of R.
C31_RoomClosedOnlyByMember ==
    [][\A R \in DOMAIN privateRooms :
          /\ ~Has(privateRooms', R) =>
                 /\ last' # Idle
                 /\ last'.op \in {"playground:leaveChat", "disconnect"}
                 /\ Owner(last'.socket) \in Members(R)
          /\ (LeaveStep(R) /\ Owner(last'.socket) \notin Members(R)) =>
                 /\ Has(privateRooms', R)
                 /\ privateRooms'[R] = privateRooms[R]
                 /\ \A m \in Members(R) \cap DOMAIN playgroundConnections :
                        /\ Has(playgroundConnections', m)
                        /\ playgroundConnections'[m].currentRoom
                               = playgroundConnections[m].currentRoom
                 /\ \A t \in DOMAIN sockets :
                        Owner(t) \in Members(R) => sockets'[t] = sockets[t]
                 /\ \A e \in emitted' : Owner(e.to) \notin Members(R)]_vars

(***************************************************************************)
(* The invite map, pair by pair.                                           *)
(***************************************************************************)
\* The step is the accept or the decline handler, called with an inviter.
AnswerStep ==
    /\ last = Idle
    /\ last'.op \in {"playground:chatInviteAccept", "playground:chatInviteDecline"}

\* C32: the invite map holds one entry at most for an ordered pair (A,B), the
\* one under the key of (A,B); a chatInvite from A to B that is stored puts
\* the new invite under that key, in place of the one that was there, and
\* touches no other entry, so (A,B) and (B,A) are two entries; B's accept or
\* decline of A's invite leaves every other entry, (B,A) included, as it was.
C32_OneInvitePerOrderedPair ==
    [][/\ \A k \in DOMAIN pendingInvites' :
              /\ pendingInvites'[k].fromId = k[1]
              /\ pendingInvites'[k].toId = k[2]
       /\ InviteStoredStep =>
              LET A == Owner(last'.socket)
                  B == last'.data.targetId
              IN  /\ DOMAIN pendingInvites' = DOMAIN pendingInvites \cup {<<A, B>>}
                  /\ pendingInvites'[<<A, B>>].timestamp = now
                  /\ \A k \in DOMAIN pendingInvites \ {<<A, B>>} :
                         pendingInvites'[k] = pendingInvites[k]
       /\ AnswerStep =>
              LET A == last'.data.fromId
                  B == Owner(last'.socket)
              IN  \A k \in DOMAIN pendingInvites \ {<<A, B>>} :
                      /\ Has(pendingInvites', k)
                      /\ pendingInvites'[k] = pendingInvites[k]]_vars

\* A has just invited B while B's earlier invite to A is pending: the map holds
\* the entry (A,B), stamped now, beside the entry (B,A), stamped earlier.
C32_Witness ==
    /\ last.op = "playground:chatInvite"
    /\ LET A == Owner(last.socket)
           B == last.data.targetId
       IN  /\ A # B
           /\ \E e \in emitted : e.ev = "playground:chatInviteSent"
           /\ now = 1
           /\ Has(pendingInvites, <<A, B>>)
           /\ pendingInvites[<<A, B>>].timestamp = 1
           /\ Has(pendingInvites, <<B, A>>)
           /\ pendingInvites[<<B, A>>].timestamp = 0
           /\ Cardinality(DOMAIN pendingInvites) = 2

\* The step is the accept handler, called by B with an inviter A, and no invite
\* (A,B) is pending.
AcceptWithoutInviteStep ==
    /\ last = Idle
    /\ last'.op = "playground:chatInviteAccept"
    /\ last'.data.fromId # undefined
    /\ ~Has(pendingInvites, <<last'.data.fromId, Owner(last'.socket)>>)

\* C33: an accept from B that names an inviter with no pending invite to B
\* sends one error event, to B's socket only, and leaves the connection map,
\* the room map, the invite map and the channels as they were.
C33_AcceptWithoutInviteOnlyErrors ==
    [][AcceptWithoutInviteStep =>
          /\ emitted' = {Event(last'.socket, "playground:error",
                               [message |-> "Invite expired or not found"])}
          /\ UNCHANGED <<playgroundConnections, privateRooms, pendingInvites,
                         sockets>>]_vars

\* B has just tried to accept an invite of A, who is connected and never
\* invited B: B's own invite to A is what is pending, B alone was told, and
\* there is no room.
C33_Witness ==
    /\ last.op = "playground:chatInviteAccept"
    /\ last.data.fromId \in DOMAIN playgroundConnections \ {Owner(last.socket)}
    /\ ~Has(pendingInvites, <<last.data.fromId, Owner(last.socket)>>)
    /\ Has(pendingInvites, <<Owner(last.socket), last.data.fromId>>)
    /\ emitted = {Event(last.socket, "playground:error",
                        [message |-> "Invite expired or not found"])}
    /\ Cardinality(DOMAIN sockets) > 1
    /\ privateRooms = EmptyMap

(***************************************************************************)
(* Rooms, pair by pair.                                                    *)
(***************************************************************************)
\* C34: the room map holds one room at most for a pair of players, also when
\* the invites (A,B) and (B,A) were pending together and both were accepted.
C34_OneRoomPerPair ==
    \A r1, r2 \in DOMAIN privateRooms :
        Members(r1) = Members(r2) => r1 = r2

(***************************************************************************)
(* What an accept checks.                                                  *)
(***************************************************************************)
\* C35: B's accept of the pending invite (A,B) creates the room of A and B
\* whenever A is connected, however far apart the two are by now and whatever
\* rooms they have entered since the invite: the room is put in the room map,
\* the currentRoom of A and of B is overwritten with its id, and the rooms
\* the two were in stay in the room map.
C35_AcceptChecksInviteAndInviterOnly ==
    [][AcceptStep =>
          LET A == last'.data.fromId
              B == Owner(last'.socket)
          IN  \E R \in DOMAIN privateRooms' :
                  /\ privateRooms'[R] = [members |-> <<B, A>>, messages |-> <<>>,
                                         createdAt |-> now]
                  /\ playgroundConnections'[A].currentRoom = R
                  /\ playgroundConnections'[B].currentRoom = R
                  /\ \A r \in DOMAIN privateRooms \ {R} :
                         /\ Has(privateRooms', r)
                         /\ privateRooms'[r] = privateRooms[r]]_vars

\* B has just accepted A's invite although B is now out of A's range and A
\* has entered a room with C since the invite: the room of A and B exists, A's
\* currentRoom names it, and the room of A and C is still in the room map.
C35_Witness ==
    /\ last.op = "playground:chatInviteAccept"
    /\ LET A == last.data.fromId
           B == Owner(last.socket)
       IN  /\ A # B
           /\ Has(playgroundConnections, A) /\ Has(playgroundConnections, B)
           /\ TooFar(getDistance(playgroundConnections[A], playgroundConnections[B]))
           /\ playgroundConnections[A].currentRoom # null
           /\ playgroundConnections[A].currentRoom = playgroundConnections[B].currentRoom
           /\ Has(privateRooms, playgroundConnections[A].currentRoom)
           /\ Members(playgroundConnections[A].currentRoom) = {A, B}
           /\ \E r \in DOMAIN privateRooms, C \in Players \ {A, B} :
                  /\ Members(r) = {A, C}
                  /\ Has(playgroundConnections, C)
                  /\ playgroundConnections[C].currentRoom = r
                  /\ privateRooms[r].createdAt <= 
                         privateRooms[playgroundConnections[A].currentRoom].createdAt
           /\ \E e \in emitted : e.ev = CRJ /\ e.to = last.socket

(***************************************************************************)
(* Who may answer an invite.                                               *)
(***************************************************************************)
\* C36: an accept or a decline sent by a connection of C and naming A touches
\* no invite but the one from A to C: every invite addressed to another
\* player, or sent by another player, stays as it was; and it makes a room, or
\* changes a currentRoom, only if an invite from A to C was pending, the room
\* being the one of C and A.
C36_OnlyTheInviteeAnswers ==
    [][AnswerStep =>
          LET C == Owner(last'.socket)
              A == last'.data.fromId
              invited == \E k \in DOMAIN pendingInvites :
                             /\ pendingInvites[k].fromId = A
                             /\ pendingInvites[k].toId = C
          IN  /\ \A k \in DOMAIN pendingInvites :
                     (pendingInvites[k].toId # C \/ pendingInvites[k].fromId # A)
                         => /\ Has(pendingInvites', k)
                            /\ pendingInvites'[k] = pendingInvites[k]
              /\ \A R \in DOMAIN privateRooms' :
                     (~Has(privateRooms, R) \/ privateRooms'[R] # privateRooms[R])
                         => /\ invited
                            /\ last'.op = "playground:chatInviteAccept"
                            /\ privateRooms'[R].members = <<C, A>>
              /\ \A P \in DOMAIN playgroundConnections :
                     playgroundConnections'[P].currentRoom
                             # playgroundConnections[P].currentRoom
                         => invited /\ P \in {A, C}
              /\ DOMAIN privateRooms \subseteq DOMAIN privateRooms']_vars

\* C has just tried to accept the invite A sent to B: A's invite to B is still
\* pending, C was told there is no invite, and there is no room.
C36_Witness ==
    /\ last.op = "playground:chatInviteAccept"
    /\ LET C == Owner(last.socket)
           A == last.data.fromId
       IN  /\ A \in DOMAIN playgroundConnections \ {C}
           /\ \E B \in DOMAIN playgroundConnections \ {A, C} :
                  /\ Has(pendingInvites, <<A, B>>)
                  /\ pendingInvites[<<A, B>>].toId = B
           /\ \A k \in DOMAIN pendingInvites : pendingInvites[k].toId # C
           /\ privateRooms = EmptyMap
           /\ \A P \in DOMAIN playgroundConnections :
                  playgroundConnections[P].currentRoom = null
           /\ emitted = {Event(last.socket, "playground:error",
                               [message |-> "Invite expired or not found"])}

(***************************************************************************)
(* Connections of one player.                                              *)
(***************************************************************************)
\* C37: a player has an entry in the connection map exactly while a live
\* socket is authenticated as that player; the entry of a player who has
\* connected twice outlives the disconnect of the older socket.
C37_EntryWhileConnected ==
    \A P \in Players :
        Has(playgroundConnections, P) <=> \E s \in DOMAIN sockets : Owner(s) = P

(***************************************************************************)
(* The invite card of the shipped client.                                  *)
(***************************************************************************)
\* C38: with the shipped client every pending invite is removed from the
\* invite map in the end, by the invitee's accept or decline or by the timer
\* of its invite card, also when several invites reach a client before it
\* answers.
C38_EveryInviteAnswered ==
    \A k \in Players \X Players :
        Has(pendingInvites, k) ~> ~Has(pendingInvites, k)

(***************************************************************************)
(* Account pairing.                                                        *)
(***************************************************************************)
\* C39: partner links are symmetric: whenever the partnerId of account U is V,
\* V is an account and the partnerId of V is U.
C39_PartnerLinksSymmetric ==
    \A U \in DOMAIN users :
        users[U].partnerId # null =>
            /\ Has(users, users[U].partnerId[1])
            /\ users[users[U].partnerId[1]].partnerId = Some(U)

====
